---- MODULE Spec2Model ----
(***************************************************************************)
(* grok-bud: the video job manager (videoJobManager.ts), the local store   *)
(* (storage.ts) and the cloud sync engine (cloudStorage.ts).               *)
(*                                                                         *)
(* Spec         the video job manager: startJob, the timer tick, the       *)
(*              status replies of the polls in flight, listeners.          *)
(* TimeoutSpec  the same actions for one job whose attempt counter is      *)
(*              allowed to run up to maxAttempts.                          *)
(* SyncSpec     the sync engine: add / update / remove favorite and the    *)
(*              steps of performFullSync between its awaits.               *)
(* JobsSpec     the job manager with several jobs and post deletion.       *)
(* SessionSpec  every sync-engine operation, signed in and signed out.     *)
(* RepliesSpec  one job, its status responses counted up to maxAttempts.   *)
(* UsageSpec    the usage statistics: record chat / image usage, reset.    *)
(* StoreSpec    more jobs than the stored job list keeps.                  *)
(***************************************************************************)
EXTENDS Integers, Sequences, FiniteSets, Bags, TLC

VARIABLES
    favorites,          \* AppState.favorites in localStorage: sequence of posts
    videoJobs,          \* AppState.videoJobs in localStorage: sequence of jobs
    attemptCounts,      \* VideoJobManager.attemptCounts: Map key -> number
    onUpdateCallbacks,  \* VideoJobManager.onUpdateCallbacks: Set of listeners
    polls,              \* pollJob invocations suspended at `await getVideoStatus`
    nextRequestId,      \* the request_id the next generateVideo reply carries
    calls,              \* what the listeners were called with: bag of <<cb, id, status>>
    consec,             \* per job id: poll errors received since its last status reply
    startResult,        \* what the last startJob call returned: "job" or "null"
    replied,            \* per counted job id: status responses its polls received
    user,               \* authService.getUser() is non-null
    remote,             \* the posts table: the rows of the current user
    sync,               \* the performFullSync call: where it is suspended, its locals
    nextUuid,           \* the value the next crypto.randomUUID() returns
    now,                \* the value the next Date.now() of a post creation returns
    mirror,             \* how the remote call of the last favorite operation ended
    ops,                \* favorite operations issued so far
    tables,             \* the settings and usage_stats tables: rows keyed by user_id
    usage,              \* AppState.usage in localStorage: counters and history
    baseline,           \* the favorites the last full sync left, while nothing wrote since
    removed,            \* the ids removeFavoriteFromCloud was called with
    isSyncing,          \* App.isSyncing
    syncCalls           \* performFullSync calls that have not returned, and
                        \* syncWithCloud calls that returned at the guard

jobVars == <<videoJobs, attemptCounts, onUpdateCallbacks, polls, nextRequestId,
             calls, consec, startResult, replied>>

syncVars == <<user, remote, sync, nextUuid, now, mirror, ops, tables, baseline>>

vars == <<favorites, videoJobs, attemptCounts, onUpdateCallbacks, polls,
          nextRequestId, calls, consec, startResult, replied, user, remote, sync,
          nextUuid, now,
          mirror, ops, tables, usage, baseline, removed, isSyncing, syncCalls>>

----------------------------------------------------------------------------
(* Bounds of the exploration *)

MaxJobs == 1             \* generateVideo replies that carry a request id
MaxInflight == 2         \* status requests awaiting their reply at one time
MaxPendingReplies == 1   \* "pending" replies counted per job in Spec
TimeoutInflight == 1     \* status requests in flight at one time in TimeoutSpec
MaxOps == 2              \* favorite operations the user issues in SyncSpec
MaxSyncs == 2            \* performFullSync calls in SyncSpec
JobsStarted == 2         \* generateVideo replies that carry a request id in JobsSpec
JobsInflight == 2        \* status requests in flight at one time in JobsSpec
JobsRemovals == 1        \* posts the user deletes in JobsSpec
StoreJobs == 22          \* generateVideo replies that carry a request id in StoreSpec
StoreEarly == 2          \* jobs of StoreSpec that may stay pending, reuse post 1, be removed
UsageCalls == 101        \* API calls recorded in UsageSpec
UsageImages == 2         \* calls after a reset that may be image calls in UsageSpec
AppSyncs == 2            \* syncWithCloud calls that start a sync in AppSpec
AppIgnored == 2          \* syncWithCloud calls made while a sync is running
SessionOps == 2          \* sync-engine operations the user issues in SessionSpec
RepliesInflight == 2     \* status requests in flight at one time in RepliesSpec

(* Program constants *)

maxAttempts == 120       \* VideoJobManager.maxAttempts
MaxStoredJobs == 20      \* addVideoJob: filtered.slice(0, 20)
MaxHistory == 100        \* recordChatUsage / recordImageUsage: .slice(0, 100)
ErrorThreshold == 3      \* pollJob: if (errorCount >= 3)

PostIds == {1, 2}
JobIds == 1..MaxJobs
Listeners == {"cb1", "cb2"}
TimeoutMessage == "Video generation timed out"
\* what getVideoStatus throws: request() and fetch throw Error objects
PollErrors == {[isError |-> TRUE, message |-> "Request failed (504)"]}

----------------------------------------------------------------------------
(* JavaScript helpers *)

Min(a, b) == IF a < b THEN a ELSE b

\* { ...a, ...b }: the keys of both, b's value where b has the key
Spread(a, b) ==
    [k \in (DOMAIN a) \cup (DOMAIN b) |-> IF k \in DOMAIN b THEN b[k] ELSE a[k]]

\* Map.get(k) || 0
MapGet(m, k) == IF k \in DOMAIN m THEN m[k] ELSE 0

\* Map.set(k, v)
MapSet(m, k, v) == [x \in (DOMAIN m) \cup {k} |-> IF x = k THEN v ELSE m[x]]

\* Map.delete(k)
MapDelete(m, k) == [x \in (DOMAIN m) \ {k} |-> m[x]]

\* the two keys pollJob uses in attemptCounts: job.id and job.id + '_errors'
AttemptKey(id) == <<id, "">>
ErrorKey(id) == <<id, "_errors">>

\* Array.prototype.map / filter on a sequence
RECURSIVE FilterSeq(_, _)
FilterSeq(s, keep) ==
    IF s = <<>> THEN <<>>
    ELSE IF Head(s) \in keep THEN <<Head(s)>> \o FilterSeq(Tail(s), keep)
    ELSE FilterSeq(Tail(s), keep)

Range(s) == {s[i] : i \in DOMAIN s}

----------------------------------------------------------------------------
(* storage.ts: video jobs *)

getPendingVideoJobs(jobs) ==
    FilterSeq(jobs, {j \in Range(jobs) : j.status = "pending"})

getVideoJobForPost(jobs, postId) ==
    FilterSeq(jobs, {j \in Range(jobs) : j.postId = postId})

\* a store that keeps the earlier jobs of the post
addVideoJobKeepAll(jobs, job) ==
    LET filtered == <<job>> \o jobs
    IN  SubSeq(filtered, 1, Min(MaxStoredJobs, Len(filtered)))

addVideoJob(jobs, job) ==
    LET filtered == <<job>> \o
            FilterSeq(jobs, {j \in Range(jobs) : j.postId # job.postId})
    IN  SubSeq(filtered, 1, Min(MaxStoredJobs, Len(filtered)))

removeVideoJob(jobs, id) ==
    FilterSeq(jobs, {j \in Range(jobs) : j.id # id})

updateVideoJob(jobs, id, updates) ==
    [i \in DOMAIN jobs |->
        IF jobs[i].id = id THEN Spread(jobs[i], updates) ELSE jobs[i]]

PostIn(favs, postId) == \E i \in DOMAIN favs : favs[i].id = postId

\* addVideoToPost(postId, video): the post keeps its fields and gains one
\* PostVideo at the end of its videos; a missing post leaves the list as it is
addVideoToPost(favs, postId, url) ==
    [i \in DOMAIN favs |->
        IF favs[i].id = postId
        THEN Spread(favs[i], [videos |-> Append(favs[i].videos,
                                  [url |-> url, starred |-> FALSE])])
        ELSE favs[i]]

----------------------------------------------------------------------------
(* videoJobManager.ts *)

\* notifyUpdate(job): every registered callback is called with the job
\* the listeners whose callback throws when it is called
Throwing == {"cb2"}

\* a notification without the try/catch around cb(job): the forEach ends at
\* the listener that throws (here the first one registered)
notifyUpdateUnguarded(log, cbs, job) ==
    log (+) SetToBag({<<cb, job.id, job.status>> :
                         cb \in IF cbs \cap Throwing # {}
                                THEN cbs \cap Throwing ELSE cbs})

\* cb(job) for every registered callback; one that throws is caught and
\* logged, and the forEach goes on
notifyUpdate(log, cbs, job) ==
    log (+) SetToBag({<<cb, job.id, job.status>> : cb \in cbs})

\* the job object startJob builds (prompt, duration and startedAt are carried
\* along unchanged and read by no branch)
\* a job that takes the post's id for its own
NewJobForPost(id, postId) == [id |-> postId, postId |-> postId, status |-> "pending"]

NewJob(id, postId) == [id |-> id, postId |-> postId, status |-> "pending"]

TimedOutJob(job) ==
    Spread(job, [status |-> "error", errorMessage |-> TimeoutMessage,
                 completedAt |-> "now"])

DoneJob(job, url) ==
    Spread(job, [status |-> "done", videoUrl |-> url, completedAt |-> "now"])

\* a failure that leaves out the completion time
FailedJobNoCompletedAt(job, error) ==
    Spread(job, [status |-> "error",
                 errorMessage |-> IF error.isError THEN error.message
                                  ELSE "Unknown error"])

FailedJob(job, error) ==
    Spread(job, [status |-> "error",
                 errorMessage |-> IF error.isError THEN error.message
                                  ELSE "Unknown error",
                 completedAt |-> "now"])

\* pollJob up to its await, for the jobs of `batch` (a set of job objects with
\* distinct ids): a job at maxAttempts is timed out on the spot, any other
\* one has its status request sent with the attempt count read here
TimedOutStrict(batch) ==
    {j \in batch : MapGet(attemptCounts, AttemptKey(j.id)) > maxAttempts}

TimedOut(batch) ==
    {j \in batch : MapGet(attemptCounts, AttemptKey(j.id)) >= maxAttempts}

RECURSIVE UpdateAll(_, _)
UpdateAll(jobs, batch) ==
    IF batch = {} THEN jobs
    ELSE LET j == CHOOSE x \in batch : TRUE
         IN  UpdateAll(updateVideoJob(jobs, j.id, TimedOutJob(j)), batch \ {j})

RECURSIVE NotifyAll(_, _, _)
NotifyAll(log, cbs, batch) ==
    IF batch = {} THEN log
    ELSE LET j == CHOOSE x \in batch : TRUE
         IN  NotifyAll(notifyUpdate(log, cbs, TimedOutJob(j)), cbs, batch \ {j})

RECURSIVE DeleteAll(_, _)
DeleteAll(m, keys) ==
    IF keys = {} THEN m
    ELSE LET k == CHOOSE x \in keys : TRUE
         IN  DeleteAll(MapDelete(m, k), keys \ {k})

PollRequests(batch, src) ==
    SetToBag({[job |-> j, src |-> src,
               attempts |-> MapGet(attemptCounts, AttemptKey(j.id))]
              : j \in batch \ TimedOut(batch)})

pollJobStart(batch, src, jobs) ==
    /\ videoJobs' = UpdateAll(jobs, TimedOut(batch))
    /\ attemptCounts' =
           DeleteAll(attemptCounts, {AttemptKey(j.id) : j \in TimedOut(batch)})
    /\ calls' = NotifyAll(calls, onUpdateCallbacks, TimedOut(batch))
    /\ polls' = polls (+) PollRequests(batch, src)

\* onUpdate(callback); listeners register before the first job is started,
\* as the App constructor does
OnUpdate(cb) ==
    /\ cb \notin onUpdateCallbacks
    /\ nextRequestId = 1
    /\ onUpdateCallbacks' = onUpdateCallbacks \cup {cb}
    /\ UNCHANGED <<favorites, videoJobs, attemptCounts, polls, nextRequestId,
                   calls, consec, startResult>>
    /\ UNCHANGED replied
    /\ UNCHANGED usage
    /\ UNCHANGED removed
    /\ UNCHANGED <<isSyncing, syncCalls>>
    /\ UNCHANGED syncVars

\* a startJob that stores the job in front of all the others, however many
StartJobOkUnbounded(postId, jobCap, inflightCap) ==
    /\ nextRequestId <= jobCap
    /\ BagCardinality(polls) < inflightCap
    /\ LET job == NewJob(nextRequestId, postId)
       IN  /\ attemptCounts' = MapSet(attemptCounts, AttemptKey(job.id), 0)
           /\ videoJobs' = <<job>> \o
                  FilterSeq(videoJobs,
                            {j \in Range(videoJobs) : j.postId # postId})
           /\ polls' = polls (+) SetToBag({[job |-> job, src |-> "start",
                                            attempts |-> 0]})
    /\ nextRequestId' = nextRequestId + 1
    /\ startResult' = "job"
    /\ UNCHANGED <<favorites, onUpdateCallbacks, calls, consec>>
    /\ UNCHANGED replied
    /\ UNCHANGED usage
    /\ UNCHANGED removed
    /\ UNCHANGED <<isSyncing, syncCalls>>
    /\ UNCHANGED syncVars

\* startJob(postId, ...) from the reply of generateVideo on: the job is
\* stored, its attempt count set to 0 and pollJob(job) called without await
StartJobOk(postId, jobCap, inflightCap) ==
    /\ nextRequestId <= jobCap
    /\ BagCardinality(polls) < inflightCap
    /\ LET job == NewJob(nextRequestId, postId)
           stored == addVideoJob(videoJobs, job)
       IN  /\ attemptCounts' = MapSet(attemptCounts, AttemptKey(job.id), 0)
           /\ videoJobs' = stored
           /\ polls' = polls (+) SetToBag({[job |-> job, src |-> "start",
                                            attempts |-> 0]})
    /\ nextRequestId' = nextRequestId + 1
    /\ startResult' = "job"
    /\ UNCHANGED <<favorites, onUpdateCallbacks, calls, consec>>
    /\ UNCHANGED replied
    /\ UNCHANGED usage
    /\ UNCHANGED removed
    /\ UNCHANGED <<isSyncing, syncCalls>>
    /\ UNCHANGED syncVars

\* a failed submission that leaves a job record behind
StartJobFailStoresJob(postId) ==
    /\ startResult' = "null"
    /\ videoJobs' = addVideoJob(videoJobs, NewJob(nextRequestId, postId))
    /\ UNCHANGED <<favorites, attemptCounts, onUpdateCallbacks,
                   polls, nextRequestId, calls, consec>>
    /\ UNCHANGED replied
    /\ UNCHANGED usage
    /\ UNCHANGED removed
    /\ UNCHANGED <<isSyncing, syncCalls>>
    /\ UNCHANGED syncVars

\* startJob when generateVideo throws: logged, null returned
StartJobFail(postId) ==
    /\ startResult' = "null"
    /\ UNCHANGED <<favorites, videoJobs, attemptCounts, onUpdateCallbacks,
                   polls, nextRequestId, calls, consec>>
    /\ UNCHANGED replied
    /\ UNCHANGED usage
    /\ UNCHANGED removed
    /\ UNCHANGED <<isSyncing, syncCalls>>
    /\ UNCHANGED syncVars

\* storage.removeVideoJob(id)
RemoveVideoJob(id) ==
    /\ videoJobs' = removeVideoJob(videoJobs, id)
    /\ UNCHANGED <<favorites, attemptCounts, onUpdateCallbacks, polls,
                   nextRequestId, calls, consec, startResult>>
    /\ UNCHANGED replied
    /\ UNCHANGED usage
    /\ UNCHANGED removed
    /\ UNCHANGED <<isSyncing, syncCalls>>
    /\ UNCHANGED syncVars

\* one firing of the interval timer: pollPendingJobs() up to the awaits of
\* its pollJob calls; the timer callback does not await the batch
Tick(inflightCap) ==
    LET pending == Range(getPendingVideoJobs(videoJobs))
    IN  /\ pending # {}
        /\ BagCardinality(polls) + Cardinality(pending) <= inflightCap
        /\ pollJobStart(pending, "tick", videoJobs)
        /\ UNCHANGED <<favorites, onUpdateCallbacks, nextRequestId, consec,
                       startResult>>
        /\ UNCHANGED replied
        /\ UNCHANGED usage
        /\ UNCHANGED removed
        /\ UNCHANGED <<isSyncing, syncCalls>>
        /\ UNCHANGED syncVars

\* one more status response for job id, when the job is a counted one
Count(counted, id) ==
    [j \in DOMAIN counted |-> IF j = id THEN counted[j] + 1 ELSE counted[j]]

\* getVideoStatus replied for poll p without a finished video
StatusPending(p, attemptCap) ==
    /\ BagIn(p, polls)
    /\ p.attempts < attemptCap
    /\ polls' = polls (-) SetToBag({p})
    /\ attemptCounts' = MapSet(attemptCounts, AttemptKey(p.job.id), p.attempts + 1)
    /\ consec' = [consec EXCEPT ![p.job.id] = 0]
    /\ UNCHANGED <<favorites, videoJobs, onUpdateCallbacks, nextRequestId,
                   calls, startResult>>
    /\ replied' = Count(replied, p.job.id)
    /\ UNCHANGED usage
    /\ UNCHANGED removed
    /\ UNCHANGED <<isSyncing, syncCalls>>
    /\ UNCHANGED syncVars

\* a done reply whose failed attach is not caught where it happens: for a
\* post that is gone the error reaches the outer catch and counts as a poll
\* error, and the job is left as it is
StatusDoneAttachThrows(p) ==
    /\ BagIn(p, polls)
    /\ polls' = polls (-) SetToBag({p})
    /\ IF PostIn(favorites, p.job.postId)
       THEN LET updatedJob == DoneJob(p.job, p.job.id)
            IN  /\ favorites' = addVideoToPost(favorites, p.job.postId, p.job.id)
                /\ videoJobs' = updateVideoJob(videoJobs, p.job.id, updatedJob)
                /\ attemptCounts' =
                       MapDelete(MapSet(attemptCounts, AttemptKey(p.job.id),
                                        p.attempts + 1),
                                 AttemptKey(p.job.id))
                /\ calls' = notifyUpdate(calls, onUpdateCallbacks, updatedJob)
       ELSE /\ attemptCounts' =
                   MapSet(MapSet(attemptCounts, AttemptKey(p.job.id),
                                 p.attempts + 1),
                          ErrorKey(p.job.id),
                          MapGet(attemptCounts, ErrorKey(p.job.id)) + 1)
            /\ UNCHANGED <<favorites, videoJobs, calls>>
    /\ consec' = [consec EXCEPT ![p.job.id] = 0]
    /\ UNCHANGED <<onUpdateCallbacks, nextRequestId, startResult>>
    /\ replied' = Count(replied, p.job.id)
    /\ UNCHANGED usage
    /\ UNCHANGED removed
    /\ UNCHANGED <<isSyncing, syncCalls>>
    /\ UNCHANGED syncVars

\* getVideoStatus replied for poll p with status done and a video url
StatusDone(p) ==
    /\ BagIn(p, polls)
    /\ polls' = polls (-) SetToBag({p})
    /\ LET updatedJob == DoneJob(p.job, p.job.id)
       IN  /\ favorites' = addVideoToPost(favorites, p.job.postId, p.job.id)
           /\ videoJobs' = updateVideoJob(videoJobs, p.job.id, updatedJob)
           /\ attemptCounts' =
                  MapDelete(MapSet(attemptCounts, AttemptKey(p.job.id),
                                   p.attempts + 1),
                            AttemptKey(p.job.id))
           /\ calls' = notifyUpdate(calls, onUpdateCallbacks, updatedJob)
    /\ consec' = [consec EXCEPT ![p.job.id] = 0]
    /\ UNCHANGED <<onUpdateCallbacks, nextRequestId, startResult>>
    /\ replied' = Count(replied, p.job.id)
    /\ UNCHANGED usage
    /\ UNCHANGED removed
    /\ UNCHANGED <<isSyncing, syncCalls>>
    /\ UNCHANGED syncVars

\* getVideoStatus threw for poll p
StatusError(p, error) ==
    /\ BagIn(p, polls)
    /\ polls' = polls (-) SetToBag({p})
    /\ LET errorCount == MapGet(attemptCounts, ErrorKey(p.job.id)) + 1
           counted == MapSet(attemptCounts, ErrorKey(p.job.id), errorCount)
           updatedJob == FailedJob(p.job, error)
       IN  IF errorCount >= ErrorThreshold
           THEN /\ videoJobs' = updateVideoJob(videoJobs, p.job.id, updatedJob)
                /\ attemptCounts' =
                       MapDelete(MapDelete(counted, AttemptKey(p.job.id)),
                                 ErrorKey(p.job.id))
                /\ calls' = notifyUpdate(calls, onUpdateCallbacks, updatedJob)
           ELSE /\ attemptCounts' = counted
                /\ UNCHANGED <<videoJobs, calls>>
    /\ consec' = [consec EXCEPT ![p.job.id] = @ + 1]
    /\ UNCHANGED <<favorites, onUpdateCallbacks, nextRequestId, startResult>>
    /\ UNCHANGED replied
    /\ UNCHANGED usage
    /\ UNCHANGED removed
    /\ UNCHANGED <<isSyncing, syncCalls>>
    /\ UNCHANGED syncVars

----------------------------------------------------------------------------
(* storage.ts: favorites *)

\* the values a missing or emptied field takes
Undefined == "undefined"
Null == "null"
Falsy(v) == v \in {"", Undefined, Null}

\* favorites.unshift({ ...post, id: crypto.randomUUID(), createdAt: Date.now() })
addFavorite(favs, post, uuid, t) ==
    <<Spread(post, [id |-> uuid, createdAt |-> t])>> \o favs

removeFavorite(favs, id) ==
    FilterSeq(favs, {f \in Range(favs) : f.id # id})

updateFavorite(favs, id, updates) ==
    [i \in DOMAIN favs |->
        IF favs[i].id = id THEN Spread(favs[i], updates) ELSE favs[i]]

----------------------------------------------------------------------------
(* storage.ts: usage statistics. Costs are counted in units of 1e-10 dollar, *)
(* in which the prices of the tables are whole numbers.                      *)

\* getUsageStats() of a state without usage, and what resetUsageStats saves
NoUsage ==
    [totalTokens |-> 0, totalCost |-> 0, chatTokens |-> 0, imageCount |-> 0,
     requestCount |-> 0, history |-> <<>>]

\* CHAT_MODEL_PRICING, cents per 100M tokens; an unknown model is priced as grok-3
ChatPricing(model) ==
    CASE model = "grok-4" -> [prompt |-> 20000, completion |-> 100000]
      [] model = "grok-3-mini" -> [prompt |-> 3000, completion |-> 5000]
      [] OTHER -> [prompt |-> 30000, completion |-> 150000]

calculateChatCost(model, promptTokens, completionTokens) ==
    promptTokens * ChatPricing(model).prompt
        + completionTokens * ChatPricing(model).completion

\* IMAGE_PRICING: 0.07 dollar per image
calculateImageCost(model, imageCount) == 700000000 * imageCount

\* a history that grows at its end
KeepFirst(record, history) ==
    SubSeq(history \o <<record>>, 1, Min(MaxHistory, Len(history) + 1))

\* [record, ...stats.history].slice(0, 100)
KeepLast(record, history) ==
    SubSeq(<<record>> \o history, 1, Min(MaxHistory, Len(history) + 1))

recordChatUsage(model, promptTokens, completionTokens, totalTokens) ==
    LET estimatedCost == calculateChatCost(model, promptTokens, completionTokens)
        record == [timestamp |-> now, endpoint |-> "chat", model |-> model,
                   promptTokens |-> promptTokens,
                   completionTokens |-> completionTokens,
                   totalTokens |-> totalTokens,
                   estimatedCost |-> estimatedCost]
    IN  /\ usage' = [usage EXCEPT
                !.totalTokens = @ + totalTokens,
                !.totalCost = @ + estimatedCost,
                !.requestCount = @ + 1,
                !.chatTokens = @ + totalTokens,
                !.history = KeepLast(record, @)]
        /\ now' = now + 1
        /\ UNCHANGED <<favorites, user, remote, sync, nextUuid, mirror, ops,
                       tables, baseline, removed, isSyncing, syncCalls>>
        /\ UNCHANGED jobVars

recordImageUsage(model, imageCount) ==
    LET estimatedCost == calculateImageCost(model, imageCount)
        record == [timestamp |-> now, endpoint |-> "image", model |-> model,
                   promptTokens |-> 0, completionTokens |-> 0,
                   totalTokens |-> 0, estimatedCost |-> estimatedCost,
                   imageCount |-> imageCount]
    IN  /\ usage' = [usage EXCEPT
                !.totalCost = @ + estimatedCost,
                !.requestCount = @ + 1,
                !.imageCount = @ + imageCount,
                !.history = KeepLast(record, @)]
        /\ now' = now + 1
        /\ UNCHANGED <<favorites, user, remote, sync, nextUuid, mirror, ops,
                       tables, baseline, removed, isSyncing, syncCalls>>
        /\ UNCHANGED jobVars

resetUsageStats ==
    /\ usage' = NoUsage
    /\ UNCHANGED <<favorites, user, remote, sync, nextUuid, now, mirror, ops,
                   tables, baseline, removed, isSyncing, syncCalls>>
    /\ UNCHANGED jobVars

----------------------------------------------------------------------------
(* cloudStorage.ts *)

\* new Date(ms).toISOString() and new Date(iso).getTime()
ToISOString(ms) == <<"iso", ms>>
GetTime(iso) == iso[2]

\* the row addFavoriteToCloud inserts for a local post (type, model and
\* image_url travel as prompt and response do)
ToRow(post) ==
    [id |-> post.id,
     prompt |-> post.prompt,
     response |-> IF Falsy(post.response) THEN Null ELSE post.response,
     videos |-> post.videos,
     created_at |-> ToISOString(post.createdAt)]

\* the post fetchFavoritesFromCloud builds from a row
FromRow(row) ==
    [id |-> row.id,
     prompt |-> row.prompt,
     response |-> IF Falsy(row.response) THEN Undefined ELSE row.response,
     videos |-> row.videos,
     createdAt |-> GetTime(row.created_at),
     tags |-> {}]

\* the keys of an update that updateFavoriteInCloud copies into cloudUpdates
CloudUpdates(updates) ==
    [k \in (DOMAIN updates) \cap {"prompt", "response", "videos"} |-> updates[k]]

\* the posts table: insert (a taken primary key is an error), delete, update
InsertRow(rows, row) ==
    IF \E r \in rows : r.id = row.id THEN rows ELSE rows \cup {row}

DeleteRow(rows, id) == {r \in rows : r.id # id}

UpdateRow(rows, id, cloudUpdates) ==
    {IF r.id = id THEN Spread(r, cloudUpdates) ELSE r : r \in rows}

\* Array.prototype.sort((a, b) => b.createdAt - a.createdAt): stable
RECURSIVE InsertDesc(_, _)
InsertDesc(sorted, x) ==
    IF sorted = <<>> THEN <<x>>
    ELSE IF Head(sorted).createdAt >= x.createdAt
         THEN <<Head(sorted)>> \o InsertDesc(Tail(sorted), x)
         ELSE <<x>> \o sorted

RECURSIVE SortDesc(_)
SortDesc(s) ==
    IF s = <<>> THEN <<>>
    ELSE InsertDesc(SortDesc(SubSeq(s, 1, Len(s) - 1)), s[Len(s)])

\* select('*').order('created_at', { ascending: false }), mapped to posts
RECURSIVE SelectPosts(_)
SelectPosts(rows) ==
    IF rows = {} THEN <<>>
    ELSE LET r == CHOOSE x \in rows :
                    \A y \in rows : GetTime(x.created_at) >= GetTime(y.created_at)
         IN  <<FromRow(r)>> \o SelectPosts(rows \ {r})

Ids(posts) == {posts[i].id : i \in DOMAIN posts}

NoBaseline == [valid |-> FALSE, list |-> <<>>]

NoTables == [settings |-> {}, usage_stats |-> {}]

NoSyncCalls == [inFlight |-> 0, ignored |-> 0]

SyncIdle ==
    [pc |-> "idle", merged |-> <<>>, todo |-> <<>>, inserting |-> <<>>,
     local0 |-> <<>>, localPosts |-> <<>>, remote0 |-> {}, fetchOk |-> FALSE, uploadsOk |-> FALSE,
     quiet |-> FALSE, prev |-> NoBaseline, runs |-> 0, threw |-> FALSE,
     toast |-> "none"]

\* how the promise of performFullSync settles: its try block is followed by
\* a catch that logs the error, so the function returns either way
performFullSync(threw) == "fulfilled"

\* syncWithCloud: the toast after `await cloudStorage.performFullSync()`
syncWithCloud(settled) ==
    IF settled = "fulfilled" THEN "Synced with cloud" ELSE "Sync failed"

\* a favorite operation or an auth change happened: a sync in flight or
\* finished is no longer undisturbed, and the last sync's result is stale
Disturbed(sy) == [sy EXCEPT !.quiet = FALSE]

\* an add that keeps the post locally only when the remote insert did not fail
AddFavoriteWhenMirrored(post, outcome, opCap) ==
    /\ ops < opCap
    /\ outcome = IF user THEN outcome ELSE "skipped"
    /\ LET localPost == Spread(post, [id |-> nextUuid, createdAt |-> now])
       IN  /\ favorites' = IF outcome = "error" THEN favorites
                           ELSE addFavorite(favorites, post, nextUuid, now)
           /\ remote' = IF user /\ outcome = "ok"
                        THEN InsertRow(remote, ToRow(localPost))
                        ELSE remote
    /\ nextUuid' = nextUuid + 1
    /\ now' = now + 1
    /\ mirror' = outcome
    /\ ops' = ops + 1
    /\ sync' = Disturbed(sync)
    /\ baseline' = NoBaseline
    /\ UNCHANGED <<user>>
    /\ UNCHANGED tables
    /\ UNCHANGED usage
    /\ UNCHANGED removed
    /\ UNCHANGED <<isSyncing, syncCalls>>
    /\ UNCHANGED jobVars

\* the three favorite operations: the local write first, then, with a session,
\* the remote call, whose error is logged
AddFavoriteToCloud(post, outcome, opCap) ==
    /\ ops < opCap
    /\ outcome = IF user THEN outcome ELSE "skipped"
    /\ LET localPost == Spread(post, [id |-> nextUuid, createdAt |-> now])
       IN  /\ favorites' = addFavorite(favorites, post, nextUuid, now)
           /\ remote' = IF user /\ outcome = "ok"
                        THEN InsertRow(remote, ToRow(localPost))
                        ELSE remote
    /\ nextUuid' = nextUuid + 1
    /\ now' = now + 1
    /\ mirror' = outcome
    /\ ops' = ops + 1
    /\ sync' = Disturbed(sync)
    /\ baseline' = NoBaseline
    /\ UNCHANGED <<user>>
    /\ UNCHANGED tables
    /\ UNCHANGED usage
    /\ UNCHANGED removed
    /\ UNCHANGED <<isSyncing, syncCalls>>
    /\ UNCHANGED jobVars

RemoveFavoriteFromCloud(id, outcome, opCap) ==
    /\ ops < opCap
    /\ outcome = IF user THEN outcome ELSE "skipped"
    /\ favorites' = removeFavorite(favorites, id)
    /\ remote' = IF user /\ outcome = "ok" THEN DeleteRow(remote, id) ELSE remote
    /\ removed' = removed \cup {id}
    /\ UNCHANGED <<isSyncing, syncCalls>>
    /\ mirror' = outcome
    /\ ops' = ops + 1
    /\ sync' = Disturbed(sync)
    /\ baseline' = NoBaseline
    /\ UNCHANGED <<user, nextUuid, now>>
    /\ UNCHANGED tables
    /\ UNCHANGED usage
    /\ UNCHANGED jobVars

UpdateFavoriteInCloud(id, updates, outcome, opCap) ==
    /\ ops < opCap
    /\ outcome = IF user /\ DOMAIN CloudUpdates(updates) # {}
                 THEN outcome ELSE "skipped"
    /\ favorites' = updateFavorite(favorites, id, updates)
    /\ remote' = IF user /\ DOMAIN CloudUpdates(updates) # {} /\ outcome = "ok"
                 THEN UpdateRow(remote, id, CloudUpdates(updates))
                 ELSE remote
    /\ mirror' = outcome
    /\ ops' = ops + 1
    /\ sync' = Disturbed(sync)
    /\ baseline' = NoBaseline
    /\ UNCHANGED <<user, nextUuid, now>>
    /\ UNCHANGED tables
    /\ UNCHANGED usage
    /\ UNCHANGED removed
    /\ UNCHANGED <<isSyncing, syncCalls>>
    /\ UNCHANGED jobVars

\* removeVideoFromPost(postId, videoId) and toggleVideoStar(postId, videoId):
\* the post loses the video, or the video's starred flag flips; a missing post
\* or video leaves the list as it is (a video is identified by its url here)
removeVideoFromPost(favs, postId, videoId) ==
    [i \in DOMAIN favs |->
        IF favs[i].id = postId
        THEN Spread(favs[i], [videos |->
                 FilterSeq(favs[i].videos,
                           {v \in Range(favs[i].videos) : v.url # videoId})])
        ELSE favs[i]]

toggleVideoStar(favs, postId, videoId) ==
    [i \in DOMAIN favs |->
        IF favs[i].id = postId
        THEN Spread(favs[i], [videos |->
                 [k \in DOMAIN favs[i].videos |->
                     IF favs[i].videos[k].url = videoId
                     THEN Spread(favs[i].videos[k],
                                 [starred |-> ~favs[i].videos[k].starred])
                     ELSE favs[i].videos[k]]])
        ELSE favs[i]]

\* localStorage.getFavorites().find(f => f.id === postId)
FindPost(favs, postId) == FilterSeq(favs, {f \in Range(favs) : f.id = postId})

\* removeVideoFromPostCloud / toggleVideoStarCloud after their local write
\* `written`: without a session they return; with one, and the post found,
\* they await updateFavoriteInCloud(postId, { videos: post.videos })
PushVideos(written, postId, outcome, opCap) ==
    LET post == FindPost(written, postId)
        pushes == user /\ post # <<>>
        updates == [videos |-> post[1].videos]
    IN  /\ ops < opCap
        /\ outcome = IF pushes THEN outcome ELSE "skipped"
        /\ favorites' = IF pushes
                        THEN updateFavorite(written, postId, updates)
                        ELSE written
        /\ remote' = IF pushes /\ outcome = "ok"
                     THEN UpdateRow(remote, postId, CloudUpdates(updates))
                     ELSE remote
        /\ mirror' = outcome
        /\ ops' = ops + 1
        /\ sync' = Disturbed(sync)
        /\ baseline' = NoBaseline
        /\ UNCHANGED <<user, nextUuid, now, tables>>
        /\ UNCHANGED usage
        /\ UNCHANGED removed
        /\ UNCHANGED <<isSyncing, syncCalls>>
        /\ UNCHANGED jobVars

RemoveVideoFromPostCloud(postId, videoId, outcome, opCap) ==
    PushVideos(removeVideoFromPost(favorites, postId, videoId), postId,
               outcome, opCap)

ToggleVideoStarCloud(postId, videoId, outcome, opCap) ==
    PushVideos(toggleVideoStar(favorites, postId, videoId), postId,
               outcome, opCap)

\* upsert(row, { onConflict: 'user_id' })
Upsert(rows, row) == {r \in rows : r.user_id # row.user_id} \cup {row}

UserId == "u1"

SettingsRow ==
    [user_id |-> UserId, api_key_encrypted |-> "key", image_model |-> "grok-3",
     updated_at |-> ToISOString(now)]

UsageRow ==
    [user_id |-> UserId, chat_tokens |-> usage.chatTokens,
     image_count |-> usage.imageCount, video_count |-> 0,
     updated_at |-> ToISOString(now)]

\* a settings push that does not look at the session
SyncSettingsToCloudUnchecked(outcome, opCap) ==
    /\ ops < opCap
    /\ tables' = IF outcome = "ok"
                 THEN [tables EXCEPT !.settings = Upsert(@, SettingsRow)]
                 ELSE tables
    /\ mirror' = outcome
    /\ ops' = ops + 1
    /\ UNCHANGED <<favorites, user, remote, sync, nextUuid, now, baseline>>
    /\ UNCHANGED usage
    /\ UNCHANGED removed
    /\ UNCHANGED <<isSyncing, syncCalls>>
    /\ UNCHANGED jobVars

\* syncSettingsToCloud and syncUsageToCloud: nothing without a session, else
\* the upsert of the user's row
SyncSettingsToCloud(outcome, opCap) ==
    /\ ops < opCap
    /\ outcome = IF user THEN outcome ELSE "skipped"
    /\ tables' = IF user /\ outcome = "ok"
                 THEN [tables EXCEPT !.settings = Upsert(@, SettingsRow)]
                 ELSE tables
    /\ mirror' = outcome
    /\ ops' = ops + 1
    /\ UNCHANGED <<favorites, user, remote, sync, nextUuid, now, baseline>>
    /\ UNCHANGED usage
    /\ UNCHANGED removed
    /\ UNCHANGED <<isSyncing, syncCalls>>
    /\ UNCHANGED jobVars

SyncUsageToCloud(outcome, opCap) ==
    /\ ops < opCap
    /\ outcome = IF user THEN outcome ELSE "skipped"
    /\ tables' = IF user /\ outcome = "ok"
                 THEN [tables EXCEPT !.usage_stats = Upsert(@, UsageRow)]
                 ELSE tables
    /\ mirror' = outcome
    /\ ops' = ops + 1
    /\ UNCHANGED <<favorites, user, remote, sync, nextUuid, now, baseline>>
    /\ UNCHANGED usage
    /\ UNCHANGED removed
    /\ UNCHANGED <<isSyncing, syncCalls>>
    /\ UNCHANGED jobVars

\* the session appears or goes away
SignIn ==
    /\ ~user
    /\ user' = TRUE
    /\ sync' = Disturbed(sync)
    /\ UNCHANGED <<favorites, remote, nextUuid, now, mirror, ops, baseline>>
    /\ UNCHANGED tables
    /\ UNCHANGED usage
    /\ UNCHANGED removed
    /\ UNCHANGED <<isSyncing, syncCalls>>
    /\ UNCHANGED jobVars

SignOut ==
    /\ user
    /\ user' = FALSE
    /\ sync' = Disturbed(sync)
    /\ UNCHANGED <<favorites, remote, nextUuid, now, mirror, ops, baseline>>
    /\ UNCHANGED tables
    /\ UNCHANGED usage
    /\ UNCHANGED removed
    /\ UNCHANGED <<isSyncing, syncCalls>>
    /\ UNCHANGED jobVars

\* performFullSync from the end of its upload loop on: the merged list is
\* sorted and written, then fetchSettingsFromCloud is awaited (it returns at
\* once without a session)
WriteMerged(sy, merged) ==
    /\ favorites' = SortDesc(merged)
    /\ IF user
       THEN /\ sync' = [sy EXCEPT !.pc = "settings", !.merged = merged,
                                  !.todo = <<>>, !.inserting = <<>>]
            /\ baseline' = baseline
       ELSE /\ sync' = [sy EXCEPT !.pc = "done", !.merged = merged,
                                  !.todo = <<>>, !.inserting = <<>>,
                                  !.prev = baseline,
                                  !.toast = syncWithCloud(performFullSync(FALSE))]
            /\ baseline' = [valid |-> FALSE, list |-> SortDesc(merged)]

\* performFullSync in its loop over the local-only posts `todo`:
\* merged.set(post.id, post); await addFavoriteToCloud(post). With a session
\* the call adds its copy of the post locally and suspends at the insert;
\* without one it adds the copy and returns, and the loop runs on.
RunUploads(sy, merged, todo) ==
    IF todo = <<>>
    THEN /\ WriteMerged(sy, merged)
         /\ UNCHANGED <<nextUuid, now>>
    ELSE IF user
    THEN /\ favorites' = addFavorite(favorites, Head(todo), nextUuid, now)
         /\ sync' = [sy EXCEPT
                !.pc = "upload",
                !.merged = Append(merged, Head(todo)),
                !.todo = Tail(todo),
                !.inserting = <<ToRow(Spread(Head(todo),
                                  [id |-> nextUuid, createdAt |-> now]))>>]
         /\ nextUuid' = nextUuid + 1
         /\ now' = now + 1
         /\ baseline' = baseline
    ELSE /\ WriteMerged(sy, merged \o todo)
         /\ nextUuid' = nextUuid + Len(todo)
         /\ now' = now + Len(todo)

\* a syncWithCloud that goes on whether a sync is running or not
NotSyncingUnchecked(syncing) == TRUE

\* syncWithCloud goes past `if (this.isSyncing) return;`
NotSyncing(syncing) == ~syncing

\* syncWithCloud's finally block, once performFullSync has returned
SyncFinally ==
    IF sync'.pc = "done"
    THEN /\ isSyncing' = FALSE
         /\ syncCalls' = [syncCalls EXCEPT !.inFlight = @ - 1]
    ELSE UNCHANGED <<isSyncing, syncCalls>>

\* syncWithCloud with a session: isSyncing is set, and performFullSync runs
\* up to `await supabase...select` in fetchFavoritesFromCloud
SyncStart(syncCap) ==
    /\ user
    /\ NotSyncing(isSyncing)
    /\ sync.runs < syncCap
    /\ isSyncing' = TRUE
    /\ syncCalls' = [syncCalls EXCEPT !.inFlight = @ + 1]
    /\ sync' = [SyncIdle EXCEPT !.pc = "fetch", !.local0 = favorites,
                                !.remote0 = remote, !.fetchOk = TRUE,
                                !.uploadsOk = TRUE, !.quiet = TRUE,
                                !.prev = sync.prev, !.runs = sync.runs + 1]
    /\ UNCHANGED <<favorites, user, remote, nextUuid, now, mirror, ops, baseline>>
    /\ UNCHANGED tables
    /\ UNCHANGED usage
    /\ UNCHANGED removed
    /\ UNCHANGED jobVars

\* syncWithCloud without a session: performFullSync logs and returns, and
\* isSyncing is false again when the call is over
SyncNoSession ==
    /\ ~user
    /\ sync.pc \in {"idle", "done", "skipped"}
    /\ sync' = [sync EXCEPT !.pc = "skipped"]
    /\ UNCHANGED <<favorites, user, remote, nextUuid, now, mirror, ops, tables,
                   baseline>>
    /\ UNCHANGED usage
    /\ UNCHANGED removed
    /\ UNCHANGED <<isSyncing, syncCalls>>
    /\ UNCHANGED jobVars

\* syncWithCloud while a sync is running: it returns at once
SyncIgnored(ignoredCap) ==
    /\ ~NotSyncing(isSyncing)
    /\ syncCalls.ignored < ignoredCap
    /\ syncCalls' = [syncCalls EXCEPT !.ignored = @ + 1]
    /\ UNCHANGED <<favorites, user, remote, sync, nextUuid, now, mirror, ops,
                   tables, baseline, usage, removed, isSyncing>>
    /\ UNCHANGED jobVars

\* a merge that adds every local post, whether the cloud has its id or not
LocalOnlyUnchecked(cloudPosts, localPosts) == localPosts

\* the local posts that pass `if (!merged.has(post.id))`, in local order
LocalOnly(cloudPosts, localPosts) ==
    FilterSeq(localPosts,
              {f \in Range(localPosts) : f.id \notin Ids(cloudPosts)})

\* a fetch that answers a failed select with no posts at all
fetchFavoritesFromCloudEmpty(ok, rows, favs) ==
    IF ok THEN SelectPosts(rows) ELSE <<>>

\* fetchFavoritesFromCloud once its select came back: on an error the local
\* favorites, else the rows as posts
fetchFavoritesFromCloud(ok, rows, favs) ==
    IF ok THEN SelectPosts(rows) ELSE favs

\* a merge that keeps the cloud posts only
SyncFetchedCloudOnly(ok) ==
    /\ sync.pc = "fetch"
    /\ RunUploads([sync EXCEPT !.fetchOk = ok],
                  fetchFavoritesFromCloud(ok, remote, favorites), <<>>)
    /\ UNCHANGED <<user, remote, mirror, ops>>
    /\ UNCHANGED tables
    /\ UNCHANGED usage
    /\ UNCHANGED removed
    /\ SyncFinally
    /\ UNCHANGED jobVars

\* the select came back: cloud posts first, then the local-only posts
SyncFetched(ok) ==
    /\ sync.pc = "fetch"
    /\ LET cloudPosts == fetchFavoritesFromCloud(ok, remote, favorites)
           localPosts == favorites
       IN  RunUploads([sync EXCEPT !.fetchOk = ok, !.localPosts = localPosts],
                      cloudPosts,
                      LocalOnly(cloudPosts, localPosts))
    /\ UNCHANGED <<user, remote, mirror, ops>>
    /\ UNCHANGED tables
    /\ UNCHANGED usage
    /\ UNCHANGED removed
    /\ SyncFinally
    /\ UNCHANGED jobVars

\* the insert of addFavoriteToCloud came back; the loop goes on
SyncUploaded(ok) ==
    /\ sync.pc = "upload"
    /\ remote' = IF ok THEN InsertRow(remote, sync.inserting[1]) ELSE remote
    /\ RunUploads([sync EXCEPT !.uploadsOk = @ /\ ok], sync.merged, sync.todo)
    /\ UNCHANGED <<user, mirror, ops>>
    /\ UNCHANGED tables
    /\ UNCHANGED usage
    /\ UNCHANGED removed
    /\ SyncFinally
    /\ UNCHANGED jobVars

\* the select of fetchSettingsFromCloud came back: performFullSync returns
SyncSettings ==
    /\ sync.pc = "settings"
    /\ sync' = [sync EXCEPT !.pc = "done", !.prev = baseline,
                            !.toast = syncWithCloud(performFullSync(FALSE))]
    /\ baseline' = [valid |-> sync.fetchOk /\ sync.uploadsOk /\ sync.quiet,
                    list |-> favorites]
    /\ UNCHANGED <<favorites, user, remote, nextUuid, now, mirror, ops>>
    /\ UNCHANGED tables
    /\ UNCHANGED usage
    /\ UNCHANGED removed
    /\ SyncFinally
    /\ UNCHANGED jobVars

\* an awaited call of the try block rejects (the select, the insert of an
\* upload, the select of the settings): control goes to the catch block,
\* the merged list of an interrupted upload loop is never written
SyncThrew ==
    /\ sync.pc \in {"fetch", "upload", "settings"}
    /\ sync' = [sync EXCEPT !.pc = "done", !.threw = TRUE, !.prev = baseline,
                            !.fetchOk = @ /\ sync.pc # "fetch",
                            !.uploadsOk = @ /\ sync.pc # "upload",
                            !.toast = syncWithCloud(performFullSync(TRUE))]
    /\ baseline' = [valid |-> FALSE, list |-> favorites]
    /\ UNCHANGED <<favorites, user, remote, nextUuid, now, mirror, ops>>
    /\ UNCHANGED tables
    /\ UNCHANGED usage
    /\ UNCHANGED removed
    /\ SyncFinally
    /\ UNCHANGED jobVars

----------------------------------------------------------------------------
(* The job manager after construction; the gallery holds post 1, and post 2 *)
(* is a post that is no longer in it                                        *)

GalleryPost(id) == [id |-> id, createdAt |-> id, prompt |-> "p",
                    tags |-> {}, videos |-> <<>>]

InitJobs ==
    /\ favorites = <<GalleryPost(1)>>
    /\ videoJobs = <<>>
    /\ attemptCounts = <<>>
    /\ onUpdateCallbacks = {}
    /\ polls = EmptyBag
    /\ nextRequestId = 1
    /\ calls = EmptyBag
    /\ consec = [j \in JobIds |-> 0]
    /\ startResult = "none"
    /\ replied = <<>>
    /\ user = FALSE
    /\ remote = {}
    /\ sync = SyncIdle
    /\ nextUuid = 2
    /\ now = 2
    /\ mirror = "none"
    /\ ops = 0
    /\ tables = NoTables
    /\ usage = NoUsage
    /\ baseline = NoBaseline
    /\ removed = {}
    /\ isSyncing = FALSE
    /\ syncCalls = NoSyncCalls

Init == InitJobs

Next ==
    \/ \E cb \in Listeners : OnUpdate(cb)
    \/ \E postId \in PostIds : StartJobOk(postId, MaxJobs, MaxInflight)
    \/ Tick(MaxInflight)
    \/ \E p \in BagToSet(polls) : StatusPending(p, MaxPendingReplies)
    \/ \E p \in BagToSet(polls) : StatusDone(p)
    \/ \E p \in BagToSet(polls), e \in PollErrors : StatusError(p, e)

Spec == Init /\ [][Next]_vars

\* one job followed up to maxAttempts status replies
NextTimeout ==
    \/ \E cb \in Listeners : OnUpdate(cb)
    \/ \E postId \in PostIds : StartJobOk(postId, 1, TimeoutInflight)
    \/ Tick(TimeoutInflight)
    \/ \E p \in BagToSet(polls) : StatusPending(p, maxAttempts)
    \/ \E p \in BagToSet(polls) : StatusDone(p)
    \/ \E p \in BagToSet(polls), e \in PollErrors : StatusError(p, e)

TimeoutSpec == Init /\ [][NextTimeout]_vars

----------------------------------------------------------------------------
(* The sync engine over an empty local store and an empty posts table *)

\* the post the app saves: tags: [], a response that may be empty
NewPosts == {[prompt |-> "p", response |-> "", tags |-> {}, videos |-> <<>>]}
\* updates of a mirrored field (prompt) and of a local-only one (tags)
Updates == {[prompt |-> "q"], [tags |-> {"t"}]}
Outcomes == {"ok", "error", "skipped"}

InitSync ==
    /\ favorites = <<>>
    /\ videoJobs = <<>>
    /\ attemptCounts = <<>>
    /\ onUpdateCallbacks = {}
    /\ polls = EmptyBag
    /\ nextRequestId = 1
    /\ calls = EmptyBag
    /\ consec = [j \in JobIds |-> 0]
    /\ startResult = "none"
    /\ replied = <<>>
    /\ user = FALSE
    /\ remote = {}
    /\ sync = SyncIdle
    /\ nextUuid = 1
    /\ now = 1
    /\ mirror = "none"
    /\ ops = 0
    /\ tables = NoTables
    /\ usage = NoUsage
    /\ baseline = NoBaseline
    /\ removed = {}
    /\ isSyncing = FALSE
    /\ syncCalls = NoSyncCalls

NextSync ==
    \/ SignIn
    \/ SignOut
    \/ \E post \in NewPosts, o \in Outcomes : AddFavoriteToCloud(post, o, MaxOps)
    \/ \E id \in Ids(favorites), o \in Outcomes :
           RemoveFavoriteFromCloud(id, o, MaxOps)
    \/ \E id \in Ids(favorites), u \in Updates, o \in Outcomes :
           UpdateFavoriteInCloud(id, u, o, MaxOps)
    \/ SyncStart(MaxSyncs)
    \/ \E ok \in BOOLEAN : SyncFetched(ok)
    \/ \E ok \in BOOLEAN : SyncUploaded(ok)
    \/ SyncSettings

SyncSpec == InitSync /\ [][NextSync]_vars

----------------------------------------------------------------------------
(* The job manager with several jobs: the gallery holds posts 1 and 2, jobs *)
(* are started for either, a post can be deleted; the listeners are         *)
(* registered, nobody is signed in.                                         *)

InitJobsSpec ==
    /\ favorites = <<GalleryPost(2), GalleryPost(1)>>
    /\ videoJobs = <<>>
    /\ attemptCounts = <<>>
    /\ onUpdateCallbacks = Listeners
    /\ polls = EmptyBag
    /\ nextRequestId = 1
    /\ calls = EmptyBag
    /\ consec = [j \in 1..JobsStarted |-> 0]
    /\ startResult = "none"
    /\ replied = <<>>
    /\ user = FALSE
    /\ remote = {}
    /\ sync = SyncIdle
    /\ nextUuid = 3
    /\ now = 3
    /\ mirror = "none"
    /\ ops = 0
    /\ tables = NoTables
    /\ usage = NoUsage
    /\ baseline = NoBaseline
    /\ removed = {}
    /\ isSyncing = FALSE
    /\ syncCalls = NoSyncCalls

NextJobs ==
    \/ \E postId \in PostIds : StartJobOk(postId, JobsStarted, JobsInflight)
    \/ \E postId \in PostIds : StartJobFail(postId)
    \/ Tick(JobsInflight)
    \/ \E p \in BagToSet(polls) : StatusPending(p, 1)
    \/ \E p \in BagToSet(polls) : StatusDone(p)
    \/ \E id \in Ids(favorites), o \in Outcomes :
           RemoveFavoriteFromCloud(id, o, JobsRemovals)

JobsSpec == InitJobsSpec /\ [][NextJobs]_vars

----------------------------------------------------------------------------
(* Every operation of the sync engine, with and without a session: the     *)
(* local store holds one post with one video, the tables are empty.        *)

VideoUrl == "v1"

InitSession ==
    /\ favorites = <<Spread(GalleryPost(1),
                            [response |-> "",
                             videos |-> <<[url |-> VideoUrl, starred |-> FALSE]>>])>>
    /\ videoJobs = <<>>
    /\ attemptCounts = <<>>
    /\ onUpdateCallbacks = {}
    /\ polls = EmptyBag
    /\ nextRequestId = 1
    /\ calls = EmptyBag
    /\ consec = [j \in JobIds |-> 0]
    /\ startResult = "none"
    /\ replied = <<>>
    /\ user = FALSE
    /\ remote = {}
    /\ sync = SyncIdle
    /\ nextUuid = 2
    /\ now = 2
    /\ mirror = "none"
    /\ ops = 0
    /\ tables = NoTables
    /\ usage = NoUsage
    /\ baseline = NoBaseline
    /\ removed = {}
    /\ isSyncing = FALSE
    /\ syncCalls = NoSyncCalls

NextSession ==
    \/ SignIn
    \/ SignOut
    \/ \E post \in NewPosts, o \in Outcomes : AddFavoriteToCloud(post, o, SessionOps)
    \/ \E id \in Ids(favorites), o \in Outcomes :
           RemoveFavoriteFromCloud(id, o, SessionOps)
    \/ \E id \in Ids(favorites), u \in Updates, o \in Outcomes :
           UpdateFavoriteInCloud(id, u, o, SessionOps)
    \/ \E id \in Ids(favorites), o \in Outcomes :
           RemoveVideoFromPostCloud(id, VideoUrl, o, SessionOps)
    \/ \E id \in Ids(favorites), o \in Outcomes :
           ToggleVideoStarCloud(id, VideoUrl, o, SessionOps)
    \/ \E o \in Outcomes : SyncSettingsToCloud(o, SessionOps)
    \/ \E o \in Outcomes : SyncUsageToCloud(o, SessionOps)
    \/ SyncNoSession
    \/ SyncStart(1)
    \/ \E ok \in BOOLEAN : SyncFetched(ok)
    \/ \E ok \in BOOLEAN : SyncUploaded(ok)
    \/ SyncSettings
    \/ SyncThrew

SessionSpec == InitSession /\ [][NextSession]_vars

----------------------------------------------------------------------------
(* The App's sync requests: the login check of initAuth, the auth-change    *)
(* callback and the sync button all call syncWithCloud, at any time, also   *)
(* while a sync is running; the gallery starts with one local post          *)

NextApp ==
    \/ SignIn
    \/ SignOut
    \/ SyncNoSession
    \/ SyncStart(AppSyncs)
    \/ SyncIgnored(AppIgnored)
    \/ \E ok \in BOOLEAN : SyncFetched(ok)
    \/ \E ok \in BOOLEAN : SyncUploaded(ok)
    \/ SyncSettings
    \/ SyncThrew

AppSpec == InitSession /\ [][NextApp]_vars

----------------------------------------------------------------------------
(* One job that only ever gets "pending" for an answer; its status          *)
(* responses are counted, and no more than maxAttempts + 1 are followed.    *)

InitReplies ==
    /\ favorites = <<GalleryPost(1)>>
    /\ videoJobs = <<>>
    /\ attemptCounts = <<>>
    /\ onUpdateCallbacks = {}
    /\ polls = EmptyBag
    /\ nextRequestId = 1
    /\ calls = EmptyBag
    /\ consec = [j \in {1} |-> 0]
    /\ startResult = "none"
    /\ replied = [j \in {1} |-> 0]
    /\ user = FALSE
    /\ remote = {}
    /\ sync = SyncIdle
    /\ nextUuid = 2
    /\ now = 2
    /\ mirror = "none"
    /\ ops = 0
    /\ tables = NoTables
    /\ usage = NoUsage
    /\ baseline = NoBaseline
    /\ removed = {}
    /\ isSyncing = FALSE
    /\ syncCalls = NoSyncCalls

NextReplies ==
    \/ \E postId \in {1} : StartJobOk(postId, 1, RepliesInflight)
    \/ Tick(RepliesInflight)
    \/ \E p \in BagToSet(polls) :
           /\ replied[p.job.id] <= maxAttempts
           /\ StatusPending(p, maxAttempts)

RepliesSpec == InitReplies /\ [][NextReplies]_vars

----------------------------------------------------------------------------
(* The usage statistics: chat completions of 3 tokens (2 prompt, 1          *)
(* completion), single images among the first calls after a reset, resets.  *)

NextUsage ==
    \/ /\ now <= UsageCalls
       /\ recordChatUsage("grok-3-mini", 2, 1, 3)
    \/ /\ now <= UsageCalls
       /\ usage.requestCount < UsageImages
       /\ recordImageUsage("grok-imagine-image", 1)
    \/ resetUsageStats

UsageSpec == InitSync /\ [][NextUsage]_vars

----------------------------------------------------------------------------
(* More jobs than the job list keeps: job n is started for post n, the     *)
(* early ones also for post 1 again; each job's immediate poll is answered *)
(* before the next job is started (done, for the early ones also pending), *)
(* the timer polls a job left pending, an early job can be removed.        *)

InitStore ==
    /\ favorites = <<GalleryPost(1)>>
    /\ videoJobs = <<>>
    /\ attemptCounts = <<>>
    /\ onUpdateCallbacks = {}
    /\ polls = EmptyBag
    /\ nextRequestId = 1
    /\ calls = EmptyBag
    /\ consec = [j \in 1..(StoreJobs + 1) |-> 0]
    /\ startResult = "none"
    /\ replied = <<>>
    /\ user = FALSE
    /\ remote = {}
    /\ sync = SyncIdle
    /\ nextUuid = 2
    /\ now = 2
    /\ mirror = "none"
    /\ ops = 0
    /\ tables = NoTables
    /\ usage = NoUsage
    /\ baseline = NoBaseline
    /\ removed = {}
    /\ isSyncing = FALSE
    /\ syncCalls = NoSyncCalls

NextStore ==
    \/ \E postId \in {nextRequestId} \cup
                      (IF nextRequestId <= StoreEarly + 1 THEN {1} ELSE {}) :
           StartJobOk(postId, StoreJobs, 1)
    \/ Tick(1)
    \/ \E p \in BagToSet(polls) :
           /\ p.job.id <= StoreEarly
           /\ StatusPending(p, 1)
    \/ \E p \in BagToSet(polls) : StatusDone(p)
    \/ \E id \in 1..StoreEarly : RemoveVideoJob(id)

StoreSpec == InitStore /\ [][NextStore]_vars

----------------------------------------------------------------------------
(* Observations on a state of the job manager *)

RECURSIVE SumSeq(_)
SumSeq(s) == IF s = <<>> THEN 0 ELSE Head(s) + SumSeq(Tail(s))

\* the PostVideos in the gallery that came from job id (its url is the job's)
VideosOf(favs, id) ==
    SumSeq([i \in DOMAIN favs |->
        Cardinality({k \in DOMAIN favs[i].videos : favs[i].videos[k].url = id})])

\* how often listener cb was called with job id
CallsOf(log, cb, id) ==
    CopiesIn(<<cb, id, "done">>, log) + CopiesIn(<<cb, id, "error">>, log)

Stored(jobs, id) == {j \in Range(jobs) : j.id = id}
IsPending(jobs, id) == \E j \in Stored(jobs, id) : j.status = "pending"
IsTerminal(jobs, id) == \E j \in Stored(jobs, id) : j.status \in {"done", "error"}
PostExists(favs, postId) == \E i \in DOMAIN favs : favs[i].id = postId

\* the polls in flight for job id
InFlight(bag, id) ==
    BagCardinality([p \in {q \in BagToSet(bag) : q.job.id = id} |-> CopiesIn(p, bag)])

----------------------------------------------------------------------------
(* C5: a job whose poll returns done with a video url has exactly one       *)
(* PostVideo appended to its post, whatever the interleaving of the poll    *)
(* startJob issues and the polls of the timer ticks.                        *)
C5_OneVideoPerDoneJob ==
    \A id \in JobIds :
        /\ VideosOf(favorites, id) <= 1
        /\ \A j \in Stored(videoJobs, id) :
               (j.status = "done" /\ PostExists(favorites, j.postId))
                   => VideosOf(favorites, id) = 1

(* C6: every registered listener is called exactly once per job for the     *)
(* job's terminal transition, whatever the interleaving of its polls.       *)
C6_OneCallPerListener ==
    \A id \in JobIds : \A cb \in Listeners :
        /\ CallsOf(calls, cb, id) <= 1
        /\ (IsTerminal(videoJobs, id) /\ cb \in onUpdateCallbacks)
               => CallsOf(calls, cb, id) = 1

(* C7: done and error are terminal: a stored job whose status is done or    *)
(* error keeps that status in every later step, and no status poll is       *)
(* started for it.                                                          *)
C7_TerminalIsFinal ==
    [][\A id \in JobIds :
          IsTerminal(videoJobs, id) =>
              /\ \A j \in Stored(videoJobs, id) :
                     \A k \in Stored(videoJobs', id) : k.status = j.status
              /\ InFlight(polls', id) <= InFlight(polls, id)]_vars

(* C8: a pending job that receives its third consecutive poll error becomes *)
(* error with a non-empty errorMessage and completedAt set, every           *)
(* registered listener is called with it, and it has left the pending set:  *)
(* a job that is not pending is never pending again and gets no new poll.   *)
C8_ThreeErrorsFail ==
    [][\A id \in JobIds :
          /\ (IsPending(videoJobs, id) /\ consec'[id] > consec[id]
                  /\ consec'[id] >= ErrorThreshold)
                 => /\ \A k \in Stored(videoJobs', id) :
                           /\ k.status = "error"
                           /\ "errorMessage" \in DOMAIN k
                           /\ k.errorMessage \notin {"", TimeoutMessage}
                           /\ "completedAt" \in DOMAIN k
                    /\ Stored(videoJobs', id) # {}
                    /\ \A cb \in onUpdateCallbacks :
                           CopiesIn(<<cb, id, "error">>, calls')
                               = CopiesIn(<<cb, id, "error">>, calls) + 1
                    /\ \A k \in Range(getPendingVideoJobs(videoJobs')) : k.id # id
          /\ (Stored(videoJobs, id) # {} /\ ~IsPending(videoJobs, id))
                 => /\ ~IsPending(videoJobs', id)
                    /\ InFlight(polls', id) <= InFlight(polls, id)]_vars

\* a job failed by three poll errors in a row, its listeners called
C8_Witness ==
    \E j \in Range(videoJobs) :
        /\ j.status = "error"
        /\ j.errorMessage = "Request failed (504)"
        /\ consec[j.id] = ErrorThreshold
        /\ onUpdateCallbacks = Listeners
        /\ \A cb \in Listeners : CallsOf(calls, cb, j.id) = 1

(* C9: a pending job is moved to error by poll failures only on a third     *)
(* consecutive poll error: while its errors are separated by status         *)
(* replies it stays pending (or completes, or times out).                   *)
C9_OnlyConsecutiveErrorsFail ==
    [][\A id \in JobIds :
          (IsPending(videoJobs, id) /\ consec'[id] < ErrorThreshold)
              => \A k \in Stored(videoJobs', id) :
                     k.status = "error" => k.errorMessage = TimeoutMessage]_vars

(* C10: a pending job whose attempt counter has reached maxAttempts is, at  *)
(* the next poll pass, made error with the timeout message and its          *)
(* listeners are called, whatever its count of poll errors; no status       *)
(* request is sent for it.                                                  *)
C10_TimeoutAtMaxAttempts ==
    [][\A id \in JobIds :
          (IsPending(videoJobs, id)
               /\ MapGet(attemptCounts, AttemptKey(id)) >= maxAttempts
               /\ Tick(TimeoutInflight))
              => /\ \A k \in Stored(videoJobs', id) :
                        /\ k.status = "error"
                        /\ k.errorMessage = TimeoutMessage
                        /\ "completedAt" \in DOMAIN k
                 /\ \A cb \in onUpdateCallbacks :
                        CopiesIn(<<cb, id, "error">>, calls')
                            = CopiesIn(<<cb, id, "error">>, calls) + 1
                 /\ InFlight(polls', id) = InFlight(polls, id)]_vars

\* a job timed out without one poll error, its listeners called
C10_Witness ==
    \E j \in Range(videoJobs) :
        /\ j.status = "error"
        /\ j.errorMessage = TimeoutMessage
        /\ ErrorKey(j.id) \notin DOMAIN attemptCounts
        /\ consec[j.id] = 0
        /\ onUpdateCallbacks = Listeners
        /\ \A cb \in Listeners : CallsOf(calls, cb, j.id) = 1

----------------------------------------------------------------------------
(* Observations on a full sync that has returned *)

\* the sync ran with the remote answering every call, nothing threw, and no
\* favorite operation or auth change happened since it started
Undisturbed == sync.fetchOk /\ sync.uploadsOk /\ sync.quiet /\ ~sync.threw

\* the posts that were only in the local store when the sync started
LocalOnly0 ==
    {p \in Range(sync.local0) : \A r \in sync.remote0 : r.id # p.id}

\* the rows whose id was in the local store too, with other field values
Differing0 ==
    {r \in sync.remote0 :
        \E p \in Range(sync.local0) : p.id = r.id /\ p # FromRow(r)}

(* C1: with a session, the remote reachable and no writes in between, a     *)
(* second performFullSync leaves the favorites (ids and field values) the   *)
(* first one left.                                                          *)
C1_SyncIdempotent ==
    (sync.pc = "done" /\ Undisturbed /\ sync.prev.valid)
        => Range(favorites) = Range(sync.prev.list)

(* C2: after performFullSync (session, remote reachable) every post that    *)
(* was only in the local store is still there with its id and field values, *)
(* and the posts table holds a row with that id.                            *)
C2_LocalOnlyKeptAndPushed ==
    (sync.pc = "done" /\ Undisturbed)
        => \A p \in LocalOnly0 :
               /\ p \in Range(favorites)
               /\ \E r \in remote : r.id = p.id

Without(favs, id) ==
    LET keep == {i \in DOMAIN favs : favs[i].id # id}
        Rank(i) == Cardinality({k \in keep : k <= i})
    IN  [n \in 1..Cardinality(keep) |->
            favs[CHOOSE i \in keep : Rank(i) = n]]

(* C4: an add, update or remove of a favorite through the sync engine       *)
(* leaves in the local store exactly its own effect (the new post with a    *)
(* fresh id in front; the target's given fields replaced; the target gone), *)
(* everything else untouched, and that whether the remote call succeeded,   *)
(* failed or was skipped for lack of a session; a failed call ends the      *)
(* operation like any other, with its failure only recorded.                *)
C4_LocalFirst ==
    [][\A o \in Outcomes :
          /\ \A post \in NewPosts :
                 AddFavoriteToCloud(post, o, MaxOps)
                     => /\ Len(favorites') = Len(favorites) + 1
                        /\ SubSeq(favorites', 2, Len(favorites')) = favorites
                        /\ favorites'[1].id \notin Ids(favorites)
                        /\ \A f \in DOMAIN post : favorites'[1][f] = post[f]
                        /\ ops' = ops + 1
          /\ \A id \in Ids(favorites) :
                 RemoveFavoriteFromCloud(id, o, MaxOps)
                     => /\ favorites' = Without(favorites, id)
                        /\ ops' = ops + 1
          /\ \A id \in Ids(favorites), u \in Updates :
                 UpdateFavoriteInCloud(id, u, o, MaxOps)
                     => /\ Len(favorites') = Len(favorites)
                        /\ \A i \in DOMAIN favorites :
                               /\ DOMAIN favorites'[i] = DOMAIN favorites[i]
                               /\ \A f \in DOMAIN favorites[i] :
                                      favorites'[i][f] =
                                          IF favorites[i].id = id /\ f \in DOMAIN u
                                          THEN u[f] ELSE favorites[i][f]
                        /\ ops' = ops + 1]_vars

\* two operations done with a session, the last one's remote call failed:
\* a post is in the local store that the posts table has no row for
C4_Witness ==
    /\ user
    /\ mirror = "error"
    /\ ops >= 2
    /\ \E p \in Range(favorites) : \A r \in remote : r.id # p.id

----------------------------------------------------------------------------
(* Several jobs *)

(* C11: the stored job list never holds two jobs of one post: a successful  *)
(* startJob for a post leaves, of that post's jobs, the new pending one     *)
(* only, whatever was stored for the post before.                           *)
C11_OneJobPerPost ==
    [][\A postId \in PostIds :
          /\ Len(getVideoJobForPost(videoJobs', postId)) <= 1
          /\ StartJobOk(postId, JobsStarted, JobsInflight)
                 => getVideoJobForPost(videoJobs', postId)
                        = <<NewJob(nextRequestId, postId)>>]_vars

\* job 2 replaced job 1 of the same post while job 1's poll was in flight
C11_Witness ==
    /\ \E j \in Range(videoJobs) : j.id = 2 /\ j.status = "pending"
    /\ Stored(videoJobs, 1) = {}
    /\ InFlight(polls, 1) >= 1

(* C12: deleting a post removes the jobs that reference it: after the       *)
(* delete the post is not in the favorites and getJobForPost(postId) finds  *)
(* no job.                                                                  *)
C12_DeleteRemovesJobs ==
    [][\A id \in PostIds, o \in Outcomes :
          RemoveFavoriteFromCloud(id, o, JobsRemovals)
              => /\ ~PostExists(favorites', id)
                 /\ getVideoJobForPost(videoJobs', id) = <<>>]_vars

(* C13: a startJob whose submission request fails returns no job and        *)
(* changes nothing: the stored jobs, the attempt and error counters and     *)
(* the favorites stay as they are, no status request is sent and no         *)
(* listener is called.                                                      *)
C13_FailedStartChangesNothing ==
    [][\A postId \in PostIds :
          StartJobFail(postId)
              => /\ startResult' = "null"
                 /\ videoJobs' = videoJobs
                 /\ attemptCounts' = attemptCounts
                 /\ favorites' = favorites
                 /\ polls' = polls
                 /\ calls' = calls]_vars

\* a submission failed while an earlier job was pending with its poll in
\* flight
C13_Witness ==
    /\ startResult = "null"
    /\ \E j \in Range(videoJobs) : j.status = "pending" /\ InFlight(polls, j.id) >= 1

\* the status listener cb is called with, for job id, in this step
NotifiedWith(id, status) ==
    \E cb \in onUpdateCallbacks :
        CopiesIn(<<cb, id, status>>, calls') > CopiesIn(<<cb, id, status>>, calls)

(* C14: when a listener throws on the notification of a job's terminal      *)
(* transition, every registered listener is still called once for that      *)
(* transition, the job is stored with that terminal status, and the other   *)
(* pending jobs stay pending with their counters and their status requests  *)
(* in flight untouched.                                                     *)
C14_ThrowingListener ==
    [][\A id \in DOMAIN consec, status \in {"done", "error"} :
          (IsPending(videoJobs, id) /\ NotifiedWith(id, status)
               /\ onUpdateCallbacks \cap Throwing # {})
              => /\ \A cb \in onUpdateCallbacks :
                        CopiesIn(<<cb, id, status>>, calls')
                            = CopiesIn(<<cb, id, status>>, calls) + 1
                 /\ \A j \in Stored(videoJobs', id) : j.status = status
                 /\ Stored(videoJobs', id) # {}
                 /\ \A k \in Range(getPendingVideoJobs(videoJobs)) :
                        k.id # id
                            => /\ IsPending(videoJobs', k.id)
                               /\ InFlight(polls', k.id) = InFlight(polls, k.id)
                               /\ MapGet(attemptCounts', AttemptKey(k.id))
                                      = MapGet(attemptCounts, AttemptKey(k.id))]_vars

\* two jobs, each completed with the throwing listener and the other one
\* called for it: the poll of the job completed last went on after the throw
C14_Witness ==
    /\ onUpdateCallbacks \cap Throwing # {}
    /\ onUpdateCallbacks \ Throwing # {}
    /\ \A id \in {1, 2} :
           /\ IsTerminal(videoJobs, id)
           /\ \A cb \in onUpdateCallbacks : CallsOf(calls, cb, id) = 1

----------------------------------------------------------------------------
(* Signed out *)

\* C15: while nobody is signed in, no step of the sync engine issues a write
\* to the remote store: the settings and usage_stats tables stay as they are,
\* no insert of a full sync is put in flight, and the posts table changes only
\* by the answer to an insert that a sync issued before the sign-out; a
\* performFullSync called without a session changes neither the local
\* favorites nor the remote posts.
C15_NoSessionNoRemoteWrite ==
    [][~user =>
          /\ tables' = tables
          /\ remote' # remote =>
                 /\ sync.pc = "upload"
                 /\ remote' = InsertRow(remote, sync.inserting[1])
          /\ sync'.pc = "upload" =>
                 /\ sync.pc = "upload"
                 /\ sync'.inserting = sync.inserting
          /\ (sync.pc # "skipped" /\ sync'.pc = "skipped") =>
                 /\ favorites' = favorites
                 /\ remote' = remote
                 /\ tables' = tables]_vars

\* signed out, a full sync was skipped and two operations ran locally (the
\* video is gone or starred) while the remote store is still empty
C15_Witness ==
    /\ ~user
    /\ sync.pc = "skipped"
    /\ mirror = "skipped"
    /\ ops >= 2
    /\ remote = {}
    /\ tables = NoTables
    /\ usage = NoUsage
    /\ favorites # <<>>
    /\ favorites[1].videos # <<[url |-> VideoUrl, starred |-> FALSE]>>

----------------------------------------------------------------------------
(* Errors inside the merge *)

\* C16: when an awaited call inside the merge of performFullSync throws, the
\* caller is told: the promise rejects and the app shows "Sync failed"
\* instead of "Synced with cloud".
C16_MergeErrorReported ==
    (sync.pc = "done" /\ sync.threw)
        => /\ performFullSync(sync.threw) = "rejected"
           /\ sync.toast = "Sync failed"

\* C17: when the select of the remote posts fails during a full sync (and
\* nothing else writes meanwhile), the sync runs on to its end without
\* throwing, the local favorites stay the list they were when it started, and
\* the posts table stays as it was: no row inserted, none deleted.
C17_FetchFailureKeepsLocal ==
    (sync.pc \in {"upload", "settings", "done"}
        /\ ~sync.fetchOk /\ ~sync.threw /\ sync.quiet)
        => /\ sync.pc # "upload"
           /\ favorites = sync.local0
           /\ remote = sync.remote0
           /\ sync.pc = "done" => sync.toast = "Synced with cloud"

\* a finished sync whose fetch failed, over a local store holding a post the
\* posts table lacks and another one the table holds
C17_Witness ==
    /\ sync.pc = "done" /\ ~sync.fetchOk /\ ~sync.threw /\ sync.quiet
    /\ LocalOnly0 # {}
    /\ \E r \in sync.remote0 : r.id \in Ids(sync.local0)
    /\ favorites = sync.local0

\* the ids in the local store or in the posts table when the sync started
Ids0 == Ids(sync.local0) \cup {r.id : r \in sync.remote0}

----------------------------------------------------------------------------
(* Polls of the timer *)

\* the polls in flight for job id that a timer tick started
TickInFlight(bag, id) ==
    BagCardinality([p \in {q \in BagToSet(bag) :
                               q.job.id = id /\ q.src = "tick"}
                    |-> CopiesIn(p, bag)])

\* C20: at no time are two polls that timer ticks started for the same job
\* awaiting their status reply: a tick starts no poll of a job whose poll
\* from an earlier tick has not completed.
C20_OneTickPollPerJob ==
    \A id \in JobIds : TickInFlight(polls, id) <= 1

\* C19 (its bound): a job that is still recorded as pending has received at
\* most maxAttempts status responses; with the ErrorThreshold poll errors it
\* can take, that is all it gets before it is done or error.
C19_AtMostMaxAttemptsResponses ==
    \A id \in DOMAIN replied :
        IsPending(videoJobs, id) => replied[id] <= maxAttempts

----------------------------------------------------------------------------
(* Usage statistics *)

----------------------------------------------------------------------------
(* The fields of a stored job *)

\* C22: in every state a stored job has a videoUrl only while its status is
\* done, an errorMessage only while its status is error, and a completedAt
\* exactly while its status is done or error.
C22_FieldsMatchStatus ==
    \A j \in Range(videoJobs) :
        /\ "videoUrl" \in DOMAIN j => j.status = "done"
        /\ "errorMessage" \in DOMAIN j => j.status = "error"
        /\ "completedAt" \in DOMAIN j <=> j.status \in {"done", "error"}

----------------------------------------------------------------------------
(* The size of the job list *)

JobIdsOf(jobs) == {jobs[i].id : i \in DOMAIN jobs}

\* C23: the stored job list never holds more than MaxStoredJobs records, and
\* a startJob keeps, of the new job and the stored jobs of other posts, the
\* MaxStoredJobs most recently added (request ids grow with time).
C23_AtMostTwentyJobs ==
    [][/\ Len(videoJobs') <= MaxStoredJobs
       /\ nextRequestId' # nextRequestId =>
              LET postId == videoJobs'[1].postId
                  candidates ==
                      {j.id : j \in {x \in Range(videoJobs) : x.postId # postId}}
                          \cup {nextRequestId}
                  kept == JobIdsOf(videoJobs')
              IN  /\ videoJobs'[1].id = nextRequestId
                  /\ kept \subseteq candidates
                  /\ Cardinality(kept)
                         = Min(MaxStoredJobs, Cardinality(candidates))
                  /\ \A k \in kept, c \in candidates \ kept : k > c]_vars

\* a full list that has dropped its oldest job: the list holds MaxStoredJobs
\* jobs, job 1 is no longer among them and a later job is the oldest kept
C23_Witness ==
    /\ Len(videoJobs) = MaxStoredJobs
    /\ nextRequestId > MaxStoredJobs + 1
    /\ 1 \notin JobIdsOf(videoJobs)
    /\ videoJobs[MaxStoredJobs].id = nextRequestId - MaxStoredJobs

----------------------------------------------------------------------------
(* A video for a post that is gone *)

\* the step answered poll p with something else than "still pending"
Completed(p) ==
    /\ BagIn(p, polls)
    /\ polls' = polls (-) SetToBag({p})
    /\ ~ /\ videoJobs' = videoJobs
         /\ calls' = calls
         /\ favorites' = favorites
         /\ attemptCounts'
                = MapSet(attemptCounts, AttemptKey(p.job.id), p.attempts + 1)

\* C24: when a poll is answered done with a video url and the post of its
\* stored job is no longer in the gallery, nothing fails: the job is stored as
\* done with videoUrl and completedAt, its attempt counter is gone, every
\* listener is called once with the done job, and the gallery is unchanged.
C24_DoneWithoutPost ==
    [][\A p \in BagToSet(polls) :
          (Completed(p) /\ Stored(videoJobs, p.job.id) # {}
               /\ ~PostExists(favorites, p.job.postId))
              => /\ \A j \in Stored(videoJobs', p.job.id) :
                        /\ j.status = "done"
                        /\ "videoUrl" \in DOMAIN j
                        /\ "completedAt" \in DOMAIN j
                 /\ Stored(videoJobs', p.job.id) # {}
                 /\ AttemptKey(p.job.id) \notin DOMAIN attemptCounts'
                 /\ \A cb \in onUpdateCallbacks :
                        CopiesIn(<<cb, p.job.id, "done">>, calls')
                            = CopiesIn(<<cb, p.job.id, "done">>, calls) + 1
                 /\ favorites' = favorites]_vars

\* a job stored as done, its listeners called, whose post was deleted before
\* the reply came and whose video is nowhere in the gallery
C24_Witness ==
    \E j \in Range(videoJobs) :
        /\ j.status = "done"
        /\ "videoUrl" \in DOMAIN j
        /\ ~PostExists(favorites, j.postId)
        /\ VideosOf(favorites, j.id) = 0
        /\ \A cb \in Listeners : CopiesIn(<<cb, j.id, "done">>, calls) = 1

----------------------------------------------------------------------------
(* What a successful startJob leaves behind *)

\* C25: a successful startJob stores one new pending job whose id is the
\* remote request id, in front of the list, sets its attempt counter to 0,
\* puts exactly one status request for it in flight in the same step (no timer
\* tick in between) and returns the job while that request is still
\* unanswered.
C25_StartStoresAndPolls ==
    [][nextRequestId' # nextRequestId
          => LET id == nextRequestId
             IN  /\ Cardinality(Stored(videoJobs', id)) = 1
                 /\ Stored(videoJobs, id) = {}
                 /\ videoJobs'[1].id = id
                 /\ videoJobs'[1].status = "pending"
                 /\ AttemptKey(id) \in DOMAIN attemptCounts'
                 /\ MapGet(attemptCounts', AttemptKey(id)) = 0
                 /\ InFlight(polls', id) = 1
                 /\ BagCardinality(polls') = BagCardinality(polls) + 1
                 /\ \A p \in BagToSet(polls') :
                        p.job.id = id => p.src = "start" /\ p.attempts = 0
                 /\ startResult' = "job"
                 /\ calls' = calls]_vars

\* startJob has returned job 2 and the only status request for job 2 is the
\* one startJob issued, still unanswered, with job 1 finished before
C25_Witness ==
    /\ startResult = "job"
    /\ nextRequestId = 3
    /\ \E j \in Range(videoJobs) : j.id = 2 /\ j.status = "pending"
    /\ \E j \in Range(videoJobs) : j.id = 1 /\ j.status = "done"
    /\ \E p \in BagToSet(polls) : p.job.id = 2 /\ p.src = "start"
    /\ InFlight(polls, 2) = 1
    /\ MapGet(attemptCounts, AttemptKey(2)) = 0

----------------------------------------------------------------------------
(* The reply to a status request of a superseded job *)

\* job id is no longer stored and another job of its post has taken its place
Superseded(jobs, job) ==
    /\ Stored(jobs, job.id) = {}
    /\ \E j \in Range(jobs) : j.postId = job.postId /\ j.id > job.id

\* C26: the reply to a status request of a superseded job, in flight when the
\* new job for the same post was started, changes neither the gallery nor the
\* stored jobs and calls no listener.
C26_SupersededPollIsInert ==
    [][\A p \in BagToSet(polls) :
          (polls' = polls (-) SetToBag({p}) /\ Superseded(videoJobs, p.job))
              => /\ favorites' = favorites
                 /\ videoJobs' = videoJobs
                 /\ calls' = calls]_vars

----------------------------------------------------------------------------
(* Removed posts and later syncs *)

\* C27: a post removed with removeFavoriteFromCloud stays removed: once a
\* full sync has started after the removal (the post was not among the local
\* posts it read), the post is not in Local Store, whether the removal ran
\* without a session, with a failed remote delete or with a successful one.
C27_RemovedStaysRemoved ==
    \A id \in removed :
        (sync.runs > 0 /\ id \notin Ids(sync.local0))
            => id \notin Ids(favorites)

----------------------------------------------------------------------------
(* Local writes while the merge awaits an upload *)

\* the step in which performFullSync writes its merged list
WritesMerged ==
    /\ sync.pc = "upload"
    /\ sync'.pc \in {"settings", "done"}
    /\ ~sync'.threw

\* C28: what was written to Local Store after the sync read the local posts
\* and before it wrote the merged list is still there after that write: a
\* post removed in between is not put back, and a post updated in between
\* keeps its updated fields.
C28_WritesDuringSyncKept ==
    [][WritesMerged
          => /\ \A id \in Ids(sync.localPosts) \ Ids(favorites) :
                    id \notin Ids(favorites')
             /\ \A f \in Range(favorites) :
                    (f.id \in Ids(sync.localPosts)
                         /\ f \notin Range(sync.localPosts))
                        => f \in Range(favorites')]_vars

----------------------------------------------------------------------------
(* Pending jobs and jobs started for other posts *)

\* C29: a startJob keeps every stored pending job of another post in the
\* list, so that the timer goes on polling it.
C29_PendingJobsKept ==
    [][nextRequestId' # nextRequestId
          => \A j \in Range(videoJobs) :
                 (j.status = "pending" /\ j.postId # videoJobs'[1].postId)
                     => /\ j \in Range(videoJobs')
                        /\ j \in Range(getPendingVideoJobs(videoJobs'))]_vars

----------------------------------------------------------------------------
(* One sync at a time *)

\* C30: at most one performFullSync started by the App is running at any
\* time; a syncWithCloud call made while isSyncing is true starts none and
\* changes nothing; and when a sync is over, with or without an error thrown
\* inside it, isSyncing is false.
C30_OneSyncAtATime ==
    [][/\ syncCalls'.inFlight <= 1
       /\ isSyncing' <=> syncCalls'.inFlight = 1
       /\ (isSyncing /\ syncCalls'.ignored # syncCalls.ignored)
              => /\ sync' = sync
                 /\ syncCalls'.inFlight = syncCalls.inFlight
                 /\ isSyncing'
                 /\ favorites' = favorites
                 /\ remote' = remote
       /\ (sync.pc \in {"fetch", "upload", "settings"} /\ sync'.pc = "done")
              => ~isSyncing']_vars

\* the second sync is over with an error thrown inside it, isSyncing is false
\* again, and requests made while a sync was running were turned away
C30_Witness ==
    /\ sync.runs = 2
    /\ sync.pc = "done"
    /\ sync.threw
    /\ ~isSyncing
    /\ syncCalls.inFlight = 0
    /\ syncCalls.ignored >= 1

====
